---- MODULE Spec2Model ----
(***************************************************************************)
(* Model of src/main.py: the Graph class of the planar triangulated graph  *)
(* visualizer (vertices, edge set, neighbor sets, maintained periphery,    *)
(* truncation bound) together with the two-click selection flow of         *)
(* Graph.handle_event and the key commands of main().                      *)
(*                                                                         *)
(* A Vertex object is modelled by its identity and its index: the record   *)
(* [gen, index], where gen counts the calls of start_basic_graph (Vertex   *)
(* defines no __eq__, so two vertices of different graphs are different    *)
(* objects even when their indices agree).  Coordinates, colours, zoom,    *)
(* pan and dragging do not influence the combinatorial state and are left  *)
(* out; the hit test of handle_event is modelled by the vertex it finds.   *)
(***************************************************************************)
EXTENDS Integers, Sequences, FiniteSets, TLC

\* Bounds of the model.
MaxVertices == 4
MaxResets == 2
MaxTrunc == 2
MaxHullVertices == 4
GridMax == 1

----------------------------------------------------------------------------
\* Python helpers

Range(s) == {s[i] : i \in 1..Len(s)}

Abs(x) == IF x < 0 THEN 0 - x ELSE x

Min(a, b) == IF a <= b THEN a ELSE b

Max(a, b) == IF a >= b THEN a ELSE b

\* s[a:b] with 0 <= a and 0 <= b (0-based, end exclusive, clamped)
Slice(s, a, b) == IF a >= Min(b, Len(s)) THEN <<>> ELSE SubSeq(s, a + 1, Min(b, Len(s)))

\* the result of s.index(v) when v is not in s (Python raises ValueError)
ValueError == 0 - 1

\* s.index(v): 0-based position of the first occurrence of v
IndexOf(s, v) ==
    IF v \in Range(s)
    THEN CHOOSE i \in 0..(Len(s) - 1) : s[i + 1] = v /\ \A j \in 0..(i - 1) : s[j + 1] # v
    ELSE ValueError

----------------------------------------------------------------------------
\* Values

Vertex(g, i) == [gen |-> g, index |-> i]

\* Python's None where a vertex is expected
None == [gen |-> 0, index |-> 0]

\* A Vertex object that no graph created (constructed by the caller)
Foreign == [gen |-> 0, index |-> 1]

\* float('inf')
Infinity == [inf |-> TRUE, m |-> 0]

Finite(m) == [inf |-> FALSE, m |-> m]

\* i <= bound, for an integer i and a bound that is an integer or float('inf')
Leq(i, bound) == bound.inf \/ i <= bound.m

----------------------------------------------------------------------------
VARIABLES
    vertices,           \* Graph.vertices: sequence of vertices
    edges,              \* Graph.edges: set of <<min index, max index>>
    neighbors,          \* Vertex.neighbors of every vertex of the graph
    periphery,          \* Graph.periphery: sequence of vertices
    max_vertex,         \* Graph.max_vertex
    selected_vertices,  \* Graph.selected_vertices
    mode,               \* Graph.mode: "None", "select_vp", "select_vq"
    gen,                \* number of start_basic_graph calls so far
    pc,                 \* "main", or "while" inside add_random_vertex's loop
    idx1, idx2,         \* locals of add_random_vertex
    last,               \* the operation just performed, its inputs and result
    xy,                 \* <<x, y>> of every vertex placed by add_vertex(x, y)
    hpc,                \* find_periphery: "idle", "loop" or "done"
    hull,               \* find_periphery: local hull
    point_on_hull,      \* find_periphery: local point_on_hull
    i_hull              \* find_periphery: local i

graphvars == <<vertices, edges, neighbors, periphery>>

\* the locals of find_periphery and the coordinates it reads
hullvars == <<xy, hpc, hull, point_on_hull, i_hull>>

vars == <<vertices, edges, neighbors, periphery, max_vertex, selected_vertices,
          mode, gen, pc, idx1, idx2, last, xy, hpc, hull, point_on_hull, i_hull>>

\* The graph as one value, for the operators below
G == [vertices |-> vertices, edges |-> edges, neighbors |-> neighbors,
      periphery |-> periphery]

NoOp == [op |-> "init", vp |-> None, vq |-> None, ret |-> None, pick |-> None,
         i1 |-> 0, i2 |-> 0, n |-> 0, calls |-> 0]

----------------------------------------------------------------------------
\* Graph methods as functions of the graph

\* add_vertex numbering from len(vertices) (0-based)
AddVertexFromZero(g, gn) ==
    LET nv == Vertex(gn, Len(g.vertices))
    IN  [g EXCEPT !.vertices = Append(@, nv),
                  !.neighbors = (nv :> {}) @@ @]

\* add_vertex: the new vertex gets index len(vertices) + 1
AddVertex(g, gn) ==
    LET nv == Vertex(gn, Len(g.vertices) + 1)
    IN  [g EXCEPT !.vertices = Append(@, nv),
                  !.neighbors = (nv :> {}) @@ @]

\* add_edge recording the neighbor on v1 only
AddEdgeOneWay(g, v1, v2) ==
    IF v1 # v2 /\ v2 \notin g.neighbors[v1]
    THEN [g EXCEPT !.neighbors = [x \in DOMAIN @ |->
                                    IF x = v1 THEN @[x] \cup {v2} ELSE @[x]],
                   !.edges = @ \cup {<<Min(v1.index, v2.index), Max(v1.index, v2.index)>>}]
    ELSE g

\* add_edge
AddEdge(g, v1, v2) ==
    IF v1 # v2 /\ v2 \notin g.neighbors[v1]
    THEN [g EXCEPT !.neighbors = [x \in DOMAIN @ |->
                                    IF x = v1 THEN @[x] \cup {v2}
                                    ELSE IF x = v2 THEN @[x] \cup {v1}
                                    ELSE @[x]],
                   !.edges = @ \cup {<<Min(v1.index, v2.index), Max(v1.index, v2.index)>>}]
    ELSE g

\* the loop over connect_vertices stopping before its last vertex
RECURSIVE AddEdgesButLast(_, _, _)
AddEdgesButLast(g, nv, cs) ==
    IF Len(cs) <= 1 THEN g
    ELSE AddEdgesButLast(AddEdge(g, nv, Head(cs)), nv, Tail(cs))

\* for vertex in connect_vertices: self.add_edge(new_vertex, vertex)
RECURSIVE AddEdges(_, _, _)
AddEdges(g, nv, cs) ==
    IF cs = <<>> THEN g
    ELSE AddEdges(AddEdge(g, nv, Head(cs)), nv, Tail(cs))

\* the arc without its last vertex (idx_q instead of idx_q + 1)
ConnectVerticesShort(per, idx_p, idx_q) ==
    IF idx_p < idx_q
    THEN Slice(per, idx_p, idx_q)
    ELSE Slice(per, idx_p, Len(per)) \o Slice(per, 0, idx_q)

\* the arc taken from vq to vp when vp is stored after vq (no wrap-around)
ConnectVerticesNoWrap(per, idx_p, idx_q) ==
    IF idx_p < idx_q
    THEN Slice(per, idx_p, idx_q + 1)
    ELSE Slice(per, idx_q, idx_p + 1)

\* the vertices to connect to
ConnectVertices(per, idx_p, idx_q) ==
    IF idx_p < idx_q
    THEN Slice(per, idx_p, idx_q + 1)
    ELSE Slice(per, idx_p, Len(per)) \o Slice(per, 0, idx_q + 1)

\* update_periphery_after_addition that keeps both arc endpoints around the new vertex
UpdatePeripheryKeepEndpoints(per, cv, nv) ==
    IF cv = <<>> THEN per
    ELSE LET start_idx == IndexOf(per, cv[1])
             end_idx == IndexOf(per, cv[Len(cv)])
         IN  IF start_idx <= end_idx
             THEN Slice(per, 0, start_idx + 1) \o <<nv>> \o Slice(per, end_idx, Len(per))
             ELSE Slice(per, end_idx, start_idx + 1) \o <<nv>>

\* update_periphery_after_addition
UpdatePeripheryAfterAddition(per, cv, nv) ==
    IF cv = <<>> THEN per
    ELSE LET start_idx == IndexOf(per, cv[1])
             end_idx == IndexOf(per, cv[Len(cv)])
         IN  IF start_idx <= end_idx
             THEN Slice(per, 0, start_idx) \o <<nv>> \o Slice(per, end_idx + 1, Len(per))
             ELSE Slice(per, end_idx + 1, start_idx) \o <<nv>>

\* the membership test that guards add_vertex_to_periphery
InPeriphery(per, v) == v \in Range(per)

\* add_vertex_to_periphery with the vertex created before the arguments are checked
AddVertexToPeripheryEager(g, gn, vp, vq) ==
    IF ~InPeriphery(g.periphery, vp) \/ ~InPeriphery(g.periphery, vq)
    THEN [g |-> AddVertex(g, gn), ret |-> None]
    ELSE LET idx_p == IndexOf(g.periphery, vp)
             idx_q == IndexOf(g.periphery, vq)
             cv == ConnectVertices(g.periphery, idx_p, idx_q)
             g1 == AddVertex(g, gn)
             nv == g1.vertices[Len(g1.vertices)]
             g2 == AddEdges(g1, nv, cv)
         IN  IF idx_p = ValueError \/ idx_q = ValueError
             THEN [g |-> AddVertex(g, gn), ret |-> None]
             ELSE [g |-> [g2 EXCEPT !.periphery = UpdatePeripheryAfterAddition(@, cv, nv)],
                   ret |-> nv]

\* add_vertex_to_periphery: the graph after the call and the value returned.
\* The position of the new vertex (centroid of the arc pushed outward) is not
\* part of the state modelled here.
AddVertexToPeriphery(g, gn, vp, vq) ==
    IF ~InPeriphery(g.periphery, vp) \/ ~InPeriphery(g.periphery, vq)
    THEN [g |-> g, ret |-> None]
    ELSE LET idx_p == IndexOf(g.periphery, vp)
             idx_q == IndexOf(g.periphery, vq)
             cv == ConnectVertices(g.periphery, idx_p, idx_q)
             g1 == AddVertex(g, gn)
             nv == g1.vertices[Len(g1.vertices)]
             g2 == AddEdges(g1, nv, cv)
         IN  IF idx_p = ValueError \/ idx_q = ValueError
             THEN [g |-> g, ret |-> None]
             ELSE [g |-> [g2 EXCEPT !.periphery = UpdatePeripheryAfterAddition(@, cv, nv)],
                   ret |-> nv]

\* the seed triangle without its closing edge (v3, v1)
SeedGraphOpen(gn) ==
    LET g0 == [vertices |-> <<>>, edges |-> {}, neighbors |-> <<>>, periphery |-> <<>>]
        g1 == AddVertex(g0, gn)
        v1 == g1.vertices[1]
        g2 == AddVertex(g1, gn)
        v2 == g2.vertices[2]
        g3 == AddVertex(g2, gn)
        v3 == g3.vertices[3]
        g4 == AddEdge(g3, v1, v2)
        g5 == AddEdge(g4, v2, v3)
    IN  [g5 EXCEPT !.periphery = <<v1, v2, v3>>]

\* start_basic_graph: the seed triangle of generation gn
SeedGraph(gn) ==
    LET g0 == [vertices |-> <<>>, edges |-> {}, neighbors |-> <<>>, periphery |-> <<>>]
        g1 == AddVertex(g0, gn)
        v1 == g1.vertices[1]
        g2 == AddVertex(g1, gn)
        v2 == g2.vertices[2]
        g3 == AddVertex(g2, gn)
        v3 == g3.vertices[3]
        g4 == AddEdge(g3, v1, v2)
        g5 == AddEdge(g4, v2, v3)
        g6 == AddEdge(g5, v3, v1)
    IN  [g6 EXCEPT !.periphery = <<v1, v2, v3>>]

\* the vertices a left click can hit: those drawn under the truncation bound
Visible == {v \in Range(vertices) : Leq(v.index, max_vertex)}

----------------------------------------------------------------------------
Init ==
    /\ vertices = <<>>
    /\ edges = {}
    /\ neighbors = <<>>
    /\ periphery = <<>>
    /\ max_vertex = Infinity
    /\ selected_vertices = <<>>
    /\ mode = "None"
    /\ gen = 0
    /\ pc = "main"
    /\ idx1 = 0
    /\ idx2 = 0
    /\ last = NoOp
    /\ xy = <<>>
    /\ hpc = "idle"
    /\ hull = <<>>
    /\ point_on_hull = None
    /\ i_hull = 0

SetGraph(g) ==
    /\ vertices' = g.vertices
    /\ edges' = g.edges
    /\ neighbors' = g.neighbors
    /\ periphery' = g.periphery

\* start_basic_graph (key S, Start button, and the call in main)
StartBasicGraph ==
    /\ pc = "main"
    /\ UNCHANGED hullvars
    /\ gen < MaxResets
    /\ gen' = gen + 1
    /\ SetGraph(SeedGraph(gen + 1))
    /\ max_vertex' = Infinity
    /\ last' = [NoOp EXCEPT !.op = "start_basic_graph"]
    /\ UNCHANGED <<selected_vertices, mode, pc, idx1, idx2>>

\* add_vertex_to_periphery(vp, vq) called directly: with periphery vertices,
\* with the vertex held by the selection buffer (it may be an interior vertex
\* or a vertex of a discarded graph) and with a vertex of no graph.  Interior
\* vertices also reach the method as either argument through HandleEventPick.
AddVertexToPeripheryCall ==
    /\ pc = "main"
    /\ UNCHANGED hullvars
    /\ \E vp, vq \in Range(periphery) \cup Range(selected_vertices) \cup {Foreign} :
          LET r == AddVertexToPeriphery(G, gen, vp, vq)
          IN  /\ Len(r.g.vertices) <= MaxVertices
              /\ SetGraph(r.g)
              /\ last' = [NoOp EXCEPT !.op = "add_vertex_to_periphery", !.vp = vp,
                                      !.vq = vq, !.ret = r.ret, !.calls = 1,
                                      !.n = Len(periphery)]
    /\ UNCHANGED <<max_vertex, selected_vertices, mode, gen, pc, idx1, idx2>>

\* add_random_vertex, periphery shorter than 2: returns at once
AddRandomVertexReturn ==
    /\ pc = "main"
    /\ UNCHANGED hullvars
    /\ Len(periphery) < 2
    /\ last' = [NoOp EXCEPT !.op = "add_random_vertex", !.n = Len(periphery)]
    /\ UNCHANGED <<graphvars, max_vertex, selected_vertices, mode, gen, pc, idx1, idx2>>

\* add_random_vertex: the two random draws before the loop
AddRandomVertexDraw ==
    /\ pc = "main"
    /\ UNCHANGED hullvars
    /\ Len(periphery) >= 2
    /\ \E i, j \in 0..(Len(periphery) - 1) : idx1' = i /\ idx2' = j
    /\ pc' = "while"
    /\ last' = [NoOp EXCEPT !.op = "add_random_vertex_draw", !.n = Len(periphery)]
    /\ UNCHANGED <<graphvars, max_vertex, selected_vertices, mode, gen>>

\* the loop condition of add_random_vertex
TooClose(i, j) == Abs(i - j) < 2

\* add_random_vertex: one iteration of the loop, idx2 drawn again
AddRandomVertexRedraw ==
    /\ pc = "while"
    /\ UNCHANGED hullvars
    /\ TooClose(idx1, idx2)
    /\ \E j \in 0..(Len(periphery) - 1) : idx2' = j
    /\ last' = [NoOp EXCEPT !.op = "add_random_vertex_redraw", !.n = Len(periphery)]
    /\ UNCHANGED <<graphvars, max_vertex, selected_vertices, mode, gen, pc, idx1>>

\* add_random_vertex: the loop is left and the vertex inserted
AddRandomVertexInsert ==
    /\ pc = "while"
    /\ UNCHANGED hullvars
    /\ ~TooClose(idx1, idx2)
    /\ LET vp == periphery[Min(idx1, idx2) + 1]
           vq == periphery[Max(idx1, idx2) + 1]
           r == AddVertexToPeriphery(G, gen, vp, vq)
       IN  /\ Len(r.g.vertices) <= MaxVertices
           /\ SetGraph(r.g)
           /\ last' = [NoOp EXCEPT !.op = "add_random_vertex", !.vp = vp, !.vq = vq,
                                   !.ret = r.ret, !.i1 = idx1, !.i2 = idx2,
                                   !.n = Len(periphery), !.calls = 1]
    /\ pc' = "main"
    /\ idx1' = 0
    /\ idx2' = 0
    /\ UNCHANGED <<max_vertex, selected_vertices, mode, gen>>

\* the values go_to_vertex is called with: an integer (key G), or float('inf')
\* to lift the truncation
TruncationBounds == {Finite(m) : m \in 0..MaxTrunc} \cup {Infinity}

\* what draw shows of a graph under a truncation bound: the vertices, the
\* edges and the periphery points it draws
DrawnVertices(g, bound) == {v \in Range(g.vertices) : Leq(v.index, bound)}

DrawnEdges(g, bound) == {e \in g.edges : Leq(e[1], bound) /\ Leq(e[2], bound)}

\* the periphery polygon is drawn only when more than 2 of its points pass
\* the bound; otherwise draw shows no periphery at all
DrawnPeriphery(g, bound) ==
    LET Shown(v) == Leq(v.index, bound)
        points == SelectSeq(g.periphery, Shown)
    IN  IF g.periphery # <<>> /\ Len(points) > 2 THEN points ELSE <<>>

\* go_to_vertex that also discards the edges it hides
GoToVertexPrune ==
    /\ pc = "main"
    /\ UNCHANGED hullvars
    /\ \E b \in TruncationBounds :
          /\ max_vertex' = b
          /\ edges' = DrawnEdges(G, b)
    /\ last' = [NoOp EXCEPT !.op = "go_to_vertex"]
    /\ UNCHANGED <<vertices, neighbors, periphery, selected_vertices, mode, gen, pc,
                   idx1, idx2>>

\* go_to_vertex(m)
GoToVertex ==
    /\ pc = "main"
    /\ UNCHANGED hullvars
    /\ \E b \in TruncationBounds : max_vertex' = b
    /\ last' = [NoOp EXCEPT !.op = "go_to_vertex"]
    /\ UNCHANGED <<graphvars, selected_vertices, mode, gen, pc, idx1, idx2>>

\* key A / Add Vertex button: graph.mode = 'select_vp'
BeginAdd ==
    /\ pc = "main"
    /\ UNCHANGED hullvars
    /\ mode' = "select_vp"
    /\ last' = [NoOp EXCEPT !.op = "begin_add"]
    /\ UNCHANGED <<graphvars, max_vertex, selected_vertices, gen, pc, idx1, idx2>>

\* the second pick leaving the selection flow only when the insertion succeeded
AfterSecondPickRetry(sel, ret) ==
    [selected_vertices |-> IF ret = None THEN SubSeq(sel, 1, 1) ELSE <<>>,
     mode |-> IF ret = None THEN "select_vq" ELSE "None"]

\* the second pick without the clearing of the selection buffer
AfterSecondPickKeep(sel, ret) == [selected_vertices |-> sel, mode |-> "None"]

\* handle_event after its call of add_vertex_to_periphery: sel is the buffer
\* with the second vertex appended, ret the value the call returned
AfterSecondPick(sel, ret) == [selected_vertices |-> <<>>, mode |-> "None"]

\* handle_event, left button pressed on a drawn vertex
HandleEventPick ==
    /\ pc = "main"
    /\ UNCHANGED hullvars
    /\ \E vertex \in Visible :
          IF mode = "select_vp"
          THEN /\ selected_vertices' = <<vertex>>
               /\ mode' = "select_vq"
               /\ last' = [NoOp EXCEPT !.op = "handle_event", !.pick = vertex]
               /\ UNCHANGED graphvars
          ELSE IF mode = "select_vq" /\ selected_vertices # <<>>
                  /\ selected_vertices[1] # vertex
          THEN LET r == AddVertexToPeriphery(G, gen, selected_vertices[1], vertex)
               IN  /\ Len(r.g.vertices) <= MaxVertices
                   /\ SetGraph(r.g)
                   /\ selected_vertices' =
                          AfterSecondPick(Append(selected_vertices, vertex), r.ret).selected_vertices
                   /\ mode' = AfterSecondPick(Append(selected_vertices, vertex), r.ret).mode
                   /\ last' = [NoOp EXCEPT !.op = "handle_event", !.pick = vertex,
                                           !.vp = selected_vertices[1], !.vq = vertex,
                                           !.ret = r.ret, !.calls = 1,
                                           !.n = Len(periphery)]
          ELSE /\ last' = [NoOp EXCEPT !.op = "handle_event", !.pick = vertex]
               /\ UNCHANGED <<graphvars, selected_vertices, mode>>
    /\ UNCHANGED <<max_vertex, gen, pc, idx1, idx2>>

Next ==
    \/ StartBasicGraph
    \/ AddVertexToPeripheryCall
    \/ AddRandomVertexReturn
    \/ AddRandomVertexDraw
    \/ AddRandomVertexRedraw
    \/ AddRandomVertexInsert
    \/ GoToVertex
    \/ BeginAdd
    \/ HandleEventPick

Spec == Init /\ [][Next]_vars

----------------------------------------------------------------------------
\* find_periphery, on graphs whose vertices are placed by add_vertex(x, y) at
\* integer positions (zoom_level 1 and offset 0, the values of a new Graph)

\* is_left with ties (collinear or equal points) counted as left
IsLeftOrOn(a, b, c) ==
    ((b[1] - a[1]) * (c[2] - a[2]) - (b[2] - a[2]) * (c[1] - a[1])) >= 0

\* is_left: c is to the left of the line a-b (a, b, c are <<x, y>>)
IsLeft(a, b, c) ==
    ((b[1] - a[1]) * (c[2] - a[2]) - (b[2] - a[2]) * (c[1] - a[1])) > 0

\* the position of a vertex of the list vs placed at pos
PosOf(vs, pos, v) == pos[IndexOf(vs, v) + 1]

\* min(self.vertices, key=lambda v: v.x): the first vertex of least x
Leftmost(vs, pos) ==
    vs[CHOOSE k \in 1..Len(vs) :
          /\ \A j \in 1..Len(vs) : pos[k][1] <= pos[j][1]
          /\ \A j \in 1..(k - 1) : pos[j][1] > pos[k][1]]

\* the for loop over j in range(1, len(vertices)); j is the 1-based list
\* position of vertices[j - 1]
RECURSIVE Endpoint(_, _, _, _, _)
Endpoint(vs, pos, p, endpoint, j) ==
    IF j > Len(vs) THEN endpoint
    ELSE Endpoint(vs, pos, p,
                  IF endpoint = p \/ IsLeft(PosOf(vs, pos, p), PosOf(vs, pos, endpoint), pos[j])
                  THEN vs[j] ELSE endpoint,
                  j + 1)

\* add_vertex(x, y) called on the graph
AddVertexAt ==
    /\ hpc = "idle"
    /\ Len(vertices) < MaxHullVertices
    /\ \E x, y \in 0..GridMax : xy' = Append(xy, <<x, y>>)
    /\ SetGraph(AddVertex(G, gen))
    /\ last' = [NoOp EXCEPT !.op = "add_vertex"]
    /\ UNCHANGED <<max_vertex, selected_vertices, mode, gen, pc, idx1, idx2,
                   hpc, hull, point_on_hull, i_hull>>

\* find_periphery up to the loop: empty graph, or the leftmost vertex
FindPeripheryBegin ==
    /\ hpc = "idle"
    /\ IF vertices = <<>>
       THEN /\ hpc' = "done"
            /\ UNCHANGED point_on_hull
       ELSE /\ hpc' = "loop"
            /\ point_on_hull' = Leftmost(vertices, xy)
    /\ hull' = <<>>
    /\ i_hull' = 0
    /\ last' = [NoOp EXCEPT !.op = "find_periphery"]
    /\ UNCHANGED <<graphvars, max_vertex, selected_vertices, mode, gen, pc, idx1, idx2, xy>>

\* find_periphery: one iteration of the while loop
FindPeripheryStep ==
    /\ hpc = "loop"
    /\ LET endpoint == Endpoint(vertices, xy, point_on_hull, vertices[1], 2)
           newhull == Append(hull, point_on_hull)
       IN  /\ hull' = newhull
           /\ point_on_hull' = endpoint
           /\ IF endpoint = newhull[1]
              THEN hpc' = "done" /\ UNCHANGED i_hull
              ELSE /\ i_hull' = i_hull + 1
                   /\ hpc' = IF i_hull + 1 > Len(vertices) THEN "done" ELSE "loop"
    /\ UNCHANGED <<graphvars, max_vertex, selected_vertices, mode, gen, pc, idx1, idx2,
                   last, xy>>

\* find_periphery returns hull; its locals are gone
FindPeripheryReturn ==
    /\ hpc = "done"
    /\ hpc' = "idle"
    /\ hull' = <<>>
    /\ point_on_hull' = None
    /\ i_hull' = 0
    /\ last' = [NoOp EXCEPT !.op = "find_periphery_return", !.n = Len(hull)]
    /\ UNCHANGED <<graphvars, max_vertex, selected_vertices, mode, gen, pc, idx1, idx2, xy>>

HullNext ==
    \/ AddVertexAt
    \/ FindPeripheryBegin
    \/ FindPeripheryStep
    \/ FindPeripheryReturn

HullSpec == Init /\ [][HullNext]_vars

----------------------------------------------------------------------------
\* Vocabulary of the properties

\* the edge-set entry that joins two vertices
EdgeOf(u, v) == <<Min(u.index, v.index), Max(u.index, v.index)>>

\* number of vertices met walking a cycle of n positions from position p to
\* position q inclusive, wrapping if needed
ArcLength(n, p, q) == ((q - p) % n) + 1

\* the step just taken invoked add_vertex_to_periphery(last'.vp, last'.vq)
Invoked == last'.calls = 1

\* positions i and j of a cycle of n positions are at least 2 apart both ways
CyclicallyApart(n, i, j) == (i - j) % n >= 2 /\ (j - i) % n >= 2

SeedEdges == {<<1, 2>>, <<2, 3>>, <<1, 3>>}

----------------------------------------------------------------------------
\* C1: once the graph is non-empty (after start_basic_graph and any sequence
\* of add_vertex_to_periphery, add_random_vertex and reset calls) the
\* periphery list contains at least 3 vertices.
C1_PeripheryAtLeastThree == vertices # <<>> => Len(periphery) >= 3

\* C2: every pair of cyclically consecutive periphery vertices, the last and
\* the first of the stored list included, is joined by an edge of the edge set.
C2_ConsecutiveJoined ==
    \A i \in 1..Len(periphery) :
        EdgeOf(periphery[i], periphery[(i % Len(periphery)) + 1]) \in edges

\* C3: add_vertex_to_periphery(vp, vq) with distinct periphery vertices whose
\* arc from vp to vq has k >= 2 vertices increases the vertex count by 1, the
\* edge count by k and changes the periphery length by 1 - k.
C3_InsertCounts ==
    [][(/\ Invoked
        /\ last'.vp # last'.vq
        /\ last'.vp \in Range(periphery)
        /\ last'.vq \in Range(periphery))
       => LET k == ArcLength(Len(periphery), IndexOf(periphery, last'.vp),
                             IndexOf(periphery, last'.vq))
          IN  /\ k >= 2
              /\ Len(vertices') = Len(vertices) + 1
              /\ Cardinality(edges') = Cardinality(edges) + k
              /\ Len(periphery') = Len(periphery) + 1 - k]_vars

\* C3 witness: a wrap-around insertion on the seed triangle (vp = vertex 3,
\* vq = vertex 1, arc of 2) has taken place.
C3_Witness ==
    /\ last.op = "add_vertex_to_periphery"
    /\ last.vp = Vertex(gen, 3)
    /\ last.vq = Vertex(gen, 1)
    /\ last.ret = Vertex(gen, 4)
    /\ last.n = 3
    /\ Len(periphery) = 2
    /\ Cardinality(edges) = 5

\* C4: add_vertex_to_periphery(vp, vq) with vp = vq a periphery vertex is
\* rejected: it returns no vertex and leaves vertices, edges, neighbor sets
\* and periphery unchanged.
C4_EqualEndpointsRejected ==
    [][(Invoked /\ last'.vp = last'.vq /\ last'.vp \in Range(periphery))
       => (last'.ret = None /\ UNCHANGED graphvars)]_vars

\* C5: if vp or vq is not in the current periphery (empty graph, interior
\* vertex, vertex of a graph discarded by reset, vertex of no graph),
\* add_vertex_to_periphery returns no vertex and leaves vertices, edges,
\* neighbor sets and periphery exactly as they were.
C5_AbsentEndpointRejected ==
    [][(Invoked /\ (last'.vp \notin Range(periphery) \/ last'.vq \notin Range(periphery)))
       => (last'.ret = None /\ UNCHANGED graphvars)]_vars

\* C5 witness: a call whose first argument is a vertex of a discarded graph and
\* whose second argument is on the current periphery has returned None.
C5_Witness ==
    /\ last.op = "add_vertex_to_periphery"
    /\ last.vp.gen >= 1
    /\ last.vp.gen < gen
    /\ last.vq \in Range(periphery)
    /\ last.ret = None
    /\ Len(vertices) = 3

\* C6: on the seed triangle (vertices 1,2,3, periphery [1,2,3])
\* add_vertex_to_periphery(1, 2) creates vertex 4, adds exactly the edges
\* (1,4) and (2,4) and leaves the periphery equal to [1,4,2,3].
C6_SeedScenario ==
    [][(/\ G = SeedGraph(gen)
        /\ Invoked
        /\ last'.vp = Vertex(gen, 1)
        /\ last'.vq = Vertex(gen, 2))
       => (/\ last'.ret = Vertex(gen, 4)
           /\ vertices' = Append(vertices, Vertex(gen, 4))
           /\ edges' = edges \cup {<<1, 4>>, <<2, 4>>}
           /\ periphery' = <<Vertex(gen, 1), Vertex(gen, 4), Vertex(gen, 2),
                             Vertex(gen, 3)>>)]_vars

\* C7: whenever add_random_vertex performs an insertion, the two periphery
\* positions it chose are neither equal nor cyclically adjacent.
C7_RandomPositionsApart ==
    (last.op = "add_random_vertex" /\ last.calls = 1)
        => (last.i1 # last.i2 /\ CyclicallyApart(last.n, last.i1, last.i2))

\* C8: add_random_vertex always terminates: it never sits in its loop with a
\* first position from which no draw of the second position ends the loop
\* (it returns without changing the graph instead).
C8_RandomLoopCanEnd ==
    pc = "while" => \E j \in 0..(Len(periphery) - 1) : Abs(idx1 - j) >= 2

\* C9: after start_basic_graph the graph has exactly the vertices 1,2,3, the
\* edges (1,2),(2,3),(1,3), a periphery of exactly those 3 vertices, each of
\* degree 2, and an unbounded truncation bound.
C9_ResetState ==
    last.op = "start_basic_graph"
        => /\ vertices = <<Vertex(gen, 1), Vertex(gen, 2), Vertex(gen, 3)>>
           /\ edges = SeedEdges
           /\ Len(periphery) = 3
           /\ Range(periphery) = Range(vertices)
           /\ \A v \in Range(periphery) :
                 /\ Cardinality(neighbors[v]) = 2
                 /\ Cardinality({e \in edges : e[1] = v.index \/ e[2] = v.index}) = 2
           /\ max_vertex = Infinity

\* C9 witness: a reset taken from a grown, truncated graph in the middle of a
\* selection (the first pick was vertex 4 of the discarded graph).
C9_Witness ==
    /\ last.op = "start_basic_graph"
    /\ gen = 2
    /\ mode = "select_vq"
    /\ selected_vertices = <<Vertex(1, 4)>>

\* C10: in mode select_vp a pick of a visible vertex that is not in the
\* periphery leaves the mode select_vp and records no vertex; only a pick of a
\* periphery vertex moves the mode to select_vq.
C10_FirstPickNeedsPeriphery ==
    [][(/\ mode = "select_vp"
        /\ last'.op = "handle_event"
        /\ last'.pick \notin Range(periphery))
       => (mode' = "select_vp" /\ UNCHANGED selected_vertices)]_vars

\* C11: in mode select_vq a pick of a vertex different from the recorded vp
\* invokes add_vertex_to_periphery(vp, vq) exactly once and, whether it
\* succeeds or fails, the mode ends None with an empty selection buffer; a pick
\* of vp itself leaves the mode select_vq and performs no insertion.
C11_SecondPick ==
    [][(mode = "select_vq" /\ last'.op = "handle_event")
       => /\ selected_vertices # <<>>
          /\ IF last'.pick # selected_vertices[1]
             THEN /\ last'.calls = 1
                  /\ last'.vp = selected_vertices[1]
                  /\ last'.vq = last'.pick
                  /\ last'.ret = AddVertexToPeriphery(G, gen, last'.vp, last'.vq).ret
                  /\ mode' = "None"
                  /\ selected_vertices' = <<>>
             ELSE /\ last'.calls = 0
                  /\ mode' = "select_vq"
                  /\ UNCHANGED <<graphvars, selected_vertices>>]_vars

\* C11 witness: a second pick whose insertion failed (the call returned None)
\* has put the adapter back to None with an empty buffer.
C11_Witness ==
    /\ last.op = "handle_event"
    /\ last.calls = 1
    /\ last.vp # last.vq
    /\ last.ret = None
    /\ mode = "None"
    /\ selected_vertices = <<>>

\* C12: go_to_vertex(m) changes only max_vertex and leaves vertices, edges,
\* neighbor sets and periphery unchanged; so what is drawn under any bound, and
\* in particular under the restored unbounded value, is the same before and
\* after (an edge is drawn iff both endpoint indices are <= the bound).
C12_TruncationIsAFilter ==
    [][(last'.op = "go_to_vertex")
       => /\ UNCHANGED <<graphvars, selected_vertices, mode, gen>>
          /\ \A b \in TruncationBounds :
                /\ DrawnVertices(G', b) = DrawnVertices(G, b)
                /\ DrawnEdges(G', b) = DrawnEdges(G, b)
                /\ DrawnPeriphery(G', b) = DrawnPeriphery(G, b)]_vars

\* C12 witness: go_to_vertex has set a bound that hides two vertices and some
\* edges of a 4-vertex graph, and with them the periphery polygon, which is
\* drawn in full under the unbounded value.
C12_Witness ==
    /\ last.op = "go_to_vertex"
    /\ Len(vertices) = 4
    /\ max_vertex = Finite(2)
    /\ Cardinality(DrawnVertices(G, max_vertex)) = 2
    /\ Cardinality(DrawnEdges(G, max_vertex)) < Cardinality(edges)
    /\ Len(periphery) = 3
    /\ DrawnPeriphery(G, Infinity) = periphery
    /\ DrawnPeriphery(G, max_vertex) = <<>>

\* the listing s rotated left by r positions
Rotate(s, r) == SubSeq(s, r + 1, Len(s)) \o SubSeq(s, 1, r)

\* s and t are the same cyclic sequence
CyclicEq(s, t) == \E r \in 0..Max(Len(s) - 1, 0) : Rotate(s, r) = t

\* C13: for the periphery listing and every rotation of it,
\* add_vertex_to_periphery(vp, vq) selects the same arc and adds the same
\* edges, whether or not vp is stored after vq (wrap-around), and the
\* resulting peripheries are equal as cyclic sequences.
C13_RotationInvariant ==
    [][(Invoked /\ last'.ret # None)
       => \A r \in 0..(Len(periphery) - 1) :
             \A rot \in {Rotate(periphery, r)} :
             \A res \in {AddVertexToPeriphery([G EXCEPT !.periphery = rot], gen,
                                              last'.vp, last'.vq)} :
                /\ res.ret = last'.ret
                /\ res.g.edges = edges'
                /\ res.g.neighbors = neighbors'
                /\ Range(ConnectVertices(rot, IndexOf(rot, last'.vp), IndexOf(rot, last'.vq)))
                     = neighbors'[last'.ret]
                /\ CyclicEq(res.g.periphery, periphery')]_vars

\* C13 witness: an insertion whose vp (vertex 3, position 2) is stored after
\* its vq (vertex 2, position 1) has wrapped around the seed periphery.
C13_Witness ==
    /\ last.op = "add_vertex_to_periphery"
    /\ last.vp = Vertex(gen, 3)
    /\ last.vq = Vertex(gen, 2)
    /\ last.ret = Vertex(gen, 4)
    /\ last.n = 3
    /\ periphery = <<Vertex(gen, 4)>>

\* C14: find_periphery terminates after at most as many hull steps (loop
\* iterations, each appending one entry to hull) as there are vertices, for
\* every placement, and never modifies vertices, edges or periphery.
C14_HullStepsBounded ==
    /\ hpc \in {"loop", "done"} => (Len(hull) <= Len(vertices) /\ i_hull <= Len(vertices))
    /\ last.op \in {"find_periphery", "find_periphery_return"}
          => (edges = {} /\ periphery = <<>> /\ Len(xy) = Len(vertices))

\* squared distance of two positions
Dist2(a, b) == (a[1] - b[1]) * (a[1] - b[1]) + (a[2] - b[2]) * (a[2] - b[2])

\* the 4 positions are the corners of a square: pairwise distinct, and from
\* every corner two corners at the side length and one at the diagonal
IsSquare(pos) ==
    /\ Len(pos) = 4
    /\ \E side \in 1..(2 * GridMax * GridMax) :
          \A a \in 1..4 :
             /\ Cardinality({b \in 1..4 : Dist2(pos[a], pos[b]) = side}) = 2
             /\ Cardinality({b \in 1..4 : Dist2(pos[a], pos[b]) = 2 * side}) = 1

\* two corners of a square are adjacent: they are at the least distance
AdjacentCorners(pos, a, b) ==
    a # b /\ \A c \in 1..4 : c # a => Dist2(pos[a], pos[b]) <= Dist2(pos[a], pos[c])

\* C15: for 4 vertices at the corners of a square, in every order of the
\* vertex list, find_periphery returns exactly 4 entries, each corner once,
\* consecutive entries (cyclically) being adjacent corners.
C15_SquareHull ==
    (hpc = "done" /\ IsSquare(xy))
       => /\ Len(hull) = 4
          /\ Range(hull) = Range(vertices)
          /\ \A k \in 1..4 :
                AdjacentCorners(xy, IndexOf(vertices, hull[k]) + 1,
                                IndexOf(vertices, hull[(k % 4) + 1]) + 1)

\* C15 witness: find_periphery has finished on the unit square listed in the
\* order (1,1), (0,0), (0,1), (1,0).
C15_Witness ==
    /\ hpc = "done"
    /\ xy = << <<1, 1>>, <<0, 0>>, <<0, 1>>, <<1, 0>> >>
    /\ Len(hull) = 4

\* the vertex list is indexed densely: position i holds index i
DenselyIndexed == \A k \in 1..Len(vertices) : vertices[k].index = k

\* C16: the vertex at list position i-1 has index i for all i in 1..n, and
\* between two resets no insertion or truncation removes or renumbers a
\* vertex: the list only grows at its end, by the next index.
C16_DenseStableIndices ==
    [][/\ DenselyIndexed'
       /\ gen' = gen
             => /\ Len(vertices') \in {Len(vertices), Len(vertices) + 1}
                /\ SubSeq(vertices', 1, Len(vertices)) = vertices
                /\ Len(vertices') = Len(vertices) + 1
                      => vertices'[Len(vertices')].index = Len(vertices) + 1]_vars

\* C16 witness: vertex 4 was created by an insertion while the truncation
\* bound 2 hides it; it is in the list at position 4.
C16_Witness ==
    /\ max_vertex = Finite(2)
    /\ last.calls = 1
    /\ last.ret = Vertex(gen, 4)
    /\ Len(vertices) = 4
    /\ vertices[4] = last.ret

\* the vertices of the arc walked on the cycle per from vp to vq inclusive
ArcSet(per, vp, vq) ==
    LET n == Len(per)
        p == IndexOf(per, vp)
        k == ArcLength(n, p, IndexOf(per, vq))
    IN  {per[((p + d) % n) + 1] : d \in 0..(k - 1)}

\* C17: a successful add_vertex_to_periphery(vp, vq) with vp # vq adds exactly
\* the edges between the new vertex and each vertex of the arc (the new
\* vertex's degree is the arc length), puts the new vertex in the periphery
\* and removes or alters no earlier edge and no earlier neighbor relation.
C17_InsertFrame ==
    [][(Invoked /\ last'.ret # None /\ last'.vp # last'.vq)
       => LET nv == last'.ret
              arc == ArcSet(periphery, last'.vp, last'.vq)
          IN  /\ nv \notin Range(vertices)
              /\ edges' = edges \cup {EdgeOf(nv, a) : a \in arc}
              /\ Cardinality(edges' \ edges) = Cardinality(arc)
              /\ neighbors'[nv] = arc
              /\ Cardinality(neighbors'[nv]) = ArcLength(Len(periphery),
                                                         IndexOf(periphery, last'.vp),
                                                         IndexOf(periphery, last'.vq))
              /\ nv \in Range(periphery')
              /\ \A v \in Range(vertices) :
                    /\ neighbors'[v] \ {nv} = neighbors[v]
                    /\ nv \in neighbors'[v] <=> v \in arc]_vars

\* C17 witness: the two-click flow has inserted a vertex on an arc of two
\* distinct picks.
C17_Witness ==
    /\ last.op = "handle_event"
    /\ last.calls = 1
    /\ last.vp # last.vq
    /\ last.ret = Vertex(gen, 4)
    /\ last.ret \in Range(periphery)

\* C18: each stored edge is a pair (a, b) with 1 <= a < b <= vertex count, the
\* neighbor sets agree with the edge set in both directions, and adding an
\* edge that is already present changes nothing.
C18_EdgesAndNeighbors ==
    /\ \A e \in edges : e \in (1..Len(vertices)) \X (1..Len(vertices)) /\ e[1] < e[2]
    /\ DOMAIN neighbors = Range(vertices)
    /\ \A u \in Range(vertices) :
          /\ neighbors[u] \subseteq Range(vertices) \ {u}
          /\ \A v \in Range(vertices) \ {u} :
                /\ (v \in neighbors[u]) <=> (u \in neighbors[v])
                /\ (v \in neighbors[u]) <=> (EdgeOf(u, v) \in edges)
                /\ v \in neighbors[u] => AddEdge(G, u, v) = G
    /\ Cardinality(edges) * 2 =
          Cardinality({p \in Range(vertices) \X Range(vertices) : p[2] \in neighbors[p[1]]})

\* C18 witness: an insertion with vp = vq has met the arc's first vertex a
\* second time (add_edge of a present edge) and left 6 edges on 4 vertices.
C18_Witness ==
    /\ last.calls = 1
    /\ last.vp = last.vq
    /\ last.ret = Vertex(gen, 4)
    /\ Cardinality(edges) = 6

\* C19: in every reachable state every vertex in selected_vertices is a
\* member of the current vertex list (reset leaves no vertex of the discarded
\* graph in the selection buffer).
C19_SelectionInGraph == Range(selected_vertices) \subseteq Range(vertices)

\* C20: between events the selection buffer has 0 or 1 entries: it is empty
\* whenever the mode is None and holds exactly one vertex whenever the mode is
\* select_vq.
C20_SelectionBufferSize ==
    pc = "main"
       => /\ Len(selected_vertices) <= 1
          /\ mode = "None" => selected_vertices = <<>>
          /\ mode = "select_vq" => Len(selected_vertices) = 1

\* C20 witness: add_random_vertex has inserted a vertex while the adapter was
\* waiting for the second pick.
C20_Witness ==
    /\ mode = "select_vq"
    /\ Len(selected_vertices) = 1
    /\ last.op = "add_random_vertex"
    /\ last.ret # None

\* C21: in every reachable state the periphery list holds no vertex twice and
\* every periphery entry is a member of the current vertex list, so that
\* periphery.index of any entry (vp, vq, the arc endpoints) is that entry's
\* one position.
C21_PeripheryIsASet ==
    /\ \A i, j \in 1..Len(periphery) : periphery[i] = periphery[j] => i = j
    /\ Range(periphery) \subseteq Range(vertices)
    /\ \A i \in 1..Len(periphery) : IndexOf(periphery, periphery[i]) = i - 1

\* C21 witness: in the graph built after a second reset, an insertion whose two
\* endpoints are the same periphery vertex has replaced that vertex by the new
\* one, between the two other periphery vertices.
C21_Witness ==
    /\ gen = 2
    /\ last.op = "add_vertex_to_periphery"
    /\ last.vp = last.vq
    /\ last.vp = Vertex(2, 2)
    /\ last.ret = Vertex(2, 4)
    /\ periphery = <<Vertex(2, 1), Vertex(2, 4), Vertex(2, 3)>>

====
